---------------------------- MODULE Spec2Model ----------------------------
(***************************************************************************)
(* Model of src/src/04-date-tasks.js: five stateless date functions        *)
(* (parseDataFromRfc2822, parseDataFromIso8601, isLeapYear,                *)
(* timeSpanToString, angleBetweenClockHands).                              *)
(*                                                                         *)
(* The state is one call of one function: the process's local time zone,   *)
(* the function called, its arguments, whether it has returned, the values *)
(* of its local constants and its return value.                            *)
(*                                                                         *)
(* Representation.  A JavaScript time value (milliseconds since the epoch) *)
(* is the record [day |-> d, ms |-> m] standing for d * msPerDay + m with  *)
(* 0 <= m < msPerDay, because a time value of this century does not fit    *)
(* TLC's 32-bit integers.  A JavaScript string is the sequence of its      *)
(* characters.                                                             *)
(***************************************************************************)
EXTENDS Integers, Sequences, FiniteSets, TLC

VARIABLES tz, call, args, pc, locals, out

vars == <<tz, call, args, pc, locals, out>>

-----------------------------------------------------------------------------
(* Bounds of the inputs.                                                   *)

\* largest whole-hour count of a time span handed to timeSpanToString
MaxHours == 250
\* every time span of 0 .. MaxContig milliseconds is handed to timeSpanToString
MaxContig == 1200
\* isLeapYear is handed dates of the years -YearsBelowZero .. MaxYear
YearsBelowZero == 8
MaxYear == 2400

-----------------------------------------------------------------------------
(* ECMAScript time arithmetic (ECMA-262, "Time Values and Time Range").    *)

msPerSecond == 1000
msPerMinute == 60 * msPerSecond
msPerHour == 60 * msPerMinute
msPerDay == 24 * msPerHour

\* the time value of `days` whole days and `ms` further milliseconds (ms may
\* be negative or exceed a day), normalised to 0 <= ms < msPerDay
Instant(days, ms) ==
    [day |-> days + (ms \div msPerDay), ms |-> ms % msPerDay]

\* the local time zone offsets the process may run under, in minutes east of
\* Greenwich: UTC, India (+05:30), Nepal (+05:45), US Eastern (-05:00)
TimeZones == {0, 330, 345, -300}

-----------------------------------------------------------------------------
(* JavaScript primitives used by the functions.                            *)

MathAbs(x) == IF x < 0 THEN -x ELSE x

\* Math.trunc(n / d) for integers n and d > 0: the quotient rounded towards 0
MathTrunc(n, d) == IF n >= 0 THEN n \div d ELSE -((-n) \div d)

DigitChars == <<"0", "1", "2", "3", "4", "5", "6", "7", "8", "9">>

DigitSet == {DigitChars[i] : i \in 1..10}

RECURSIVE Digits(_)
Digits(n) ==
    IF n < 10 THEN <<DigitChars[n + 1]>>
    ELSE Digits(n \div 10) \o <<DigitChars[(n % 10) + 1]>>

\* Number::toString of an integer, as a template literal `${n}` applies it
NumberToString(n) == IF n < 0 THEN <<"-">> \o Digits(-n) ELSE Digits(n)

-----------------------------------------------------------------------------
(* timeSpanToString (lines 77-95).                                         *)

\* startDate.getTime() - endDate.getTime()
GetTimeDifference(startDate, endDate) ==
    (startDate.day - endDate.day) * msPerDay + (startDate.ms - endDate.ms)

\* line 78 without Math.abs
SignedTimeSpan(startDate, endDate) == GetTimeDifference(startDate, endDate)

\* line 78: const time = Math.abs(startDate.getTime() - endDate.getTime())
TimeSpan(startDate, endDate) == MathAbs(GetTimeDifference(startDate, endDate))

\* lines 79-84 with the hours left in the minutes (line 82 as time / min)
FieldsHoursNotSubtracted(time) ==
    LET second == 1000
        min == 60 * second
        hourAbs == MathTrunc(time, 60 * min)
        minAbs == MathTrunc(time, min)
        secAbs == MathTrunc(time - hourAbs * 60 * min - minAbs * min, second)
        milSecAbs == time - hourAbs * 60 * min - minAbs * min - secAbs * second
    IN [time |-> time, hourAbs |-> hourAbs, minAbs |-> minAbs,
        secAbs |-> secAbs, milSecAbs |-> milSecAbs]

\* lines 79-84: the four numeric fields of the span
TimeSpanFields(time) ==
    LET second == 1000
        min == 60 * second
        hourAbs == MathTrunc(time, 60 * min)
        minAbs == MathTrunc(time - hourAbs * 60 * min, min)
        secAbs == MathTrunc(time - hourAbs * 60 * min - minAbs * min, second)
        milSecAbs == time - hourAbs * 60 * min - minAbs * min - secAbs * second
    IN [time |-> time, hourAbs |-> hourAbs, minAbs |-> minAbs,
        secAbs |-> secAbs, milSecAbs |-> milSecAbs]

\* lines 85-87 without the padding
PadTwoNever(n) == NumberToString(n)

\* lines 85-87: n >= 9 ? n : `0${n}`
PadTwo(n) == IF n >= 9 THEN NumberToString(n) ELSE <<"0">> \o NumberToString(n)

\* lines 88-93
PadThree(milSecAbs) ==
    IF milSecAbs < 10 THEN <<"0", "0">> \o NumberToString(milSecAbs)
    ELSE IF milSecAbs > 9 /\ milSecAbs < 100
         THEN <<"0">> \o NumberToString(milSecAbs)
         ELSE NumberToString(milSecAbs)

\* line 94: `${resHourAbs}:${resMinAbs}:${resSecAbs}.${resMilSecAbs}`
FormatTimeSpan(f) ==
    PadTwo(f.hourAbs) \o <<":">> \o PadTwo(f.minAbs) \o <<":">>
        \o PadTwo(f.secAbs) \o <<".">> \o PadThree(f.milSecAbs)

timeSpanToString(startDate, endDate) ==
    FormatTimeSpan(TimeSpanFields(TimeSpan(startDate, endDate)))

\* values at and around the padding thresholds of a two-digit field
EdgeTwo == {0, 1, 8, 9, 10, 11, 59}
EdgeThree == {0, 1, 9, 10, 11, 99, 100, 999}
EdgeHours == {0, 1, 8, 9, 10, 11, 23, 24, 99, 100, MaxHours}

\* the spans of the doc comment's examples (lines 71-75)
ExampleSpans ==
    {msPerHour, 30 * msPerMinute, 20 * msPerSecond, 250,
     5 * msPerHour + 20 * msPerMinute + 10 * msPerSecond + 453}

SpanLengths ==
    (0..MaxContig) \cup ExampleSpans \cup
    {h * msPerHour + m * msPerMinute + s * msPerSecond + l :
        h \in EdgeHours, m \in EdgeTwo, s \in EdgeTwo, l \in EdgeThree}

\* 2000-02-01T10:00:00Z (day 10988) and 1969-12-31T23:59:59.999Z
SpanStarts == {Instant(10988, 10 * msPerHour), Instant(0, -1)}

\* the pairs of dates timeSpanToString is called with
TimeSpanArgs ==
    {IF swap THEN <<Instant(s.day, s.ms + d), s>> ELSE <<s, Instant(s.day, s.ms + d)>> :
        s \in SpanStarts, d \in SpanLengths, swap \in BOOLEAN}

CallTimeSpanToString ==
    /\ pc = "called"
    /\ call = "timeSpanToString"
    /\ pc' = "returned"
    /\ locals' = TimeSpanFields(TimeSpan(args[1], args[2]))
    /\ out' = timeSpanToString(args[1], args[2])
    /\ UNCHANGED <<tz, call, args>>

-----------------------------------------------------------------------------
(* The Date built-ins isLeapYear and angleBetweenClockHands call           *)
(* (ECMA-262, "Date Objects").  A day is a whole number of days since      *)
(* 1970-01-01; a year is an astronomical year number of the proleptic      *)
(* Gregorian calendar.                                                     *)

\* DayFromYear(y): the day number of January 1 of year y
DayFromYear(y) ==
    365 * (y - 1970) + ((y - 1969) \div 4) - ((y - 1901) \div 100)
        + ((y - 1601) \div 400)

DaysInYear(y) == DayFromYear(y + 1) - DayFromYear(y)

\* YearFromTime: the year whose January 1 is the latest one not after `day`
YearFromDay(day) ==
    LET est == 1970 + (day \div 365)
    IN CHOOSE y \in (est - 3)..(est + 3) :
           DayFromYear(y) <= day /\ day < DayFromYear(y + 1)

\* MonthFromTime: 0 = January .. 11 = December
MonthFromDay(day) ==
    LET y == YearFromDay(day)
        d == day - DayFromYear(y)
        leap == IF DaysInYear(y) = 366 THEN 1 ELSE 0
    IN IF d < 31 THEN 0
       ELSE IF d < 59 + leap THEN 1
       ELSE IF d < 90 + leap THEN 2
       ELSE IF d < 120 + leap THEN 3
       ELSE IF d < 151 + leap THEN 4
       ELSE IF d < 181 + leap THEN 5
       ELSE IF d < 212 + leap THEN 6
       ELSE IF d < 243 + leap THEN 7
       ELSE IF d < 273 + leap THEN 8
       ELSE IF d < 304 + leap THEN 9
       ELSE IF d < 334 + leap THEN 10
       ELSE 11

\* LocalTime(t) and UTC(t) under the offset `zone` (minutes east of Greenwich)
LocalTime(t, zone) == Instant(t.day, t.ms + zone * msPerMinute)
UTC(t, zone) == Instant(t.day, t.ms - zone * msPerMinute)

\* date.getFullYear(), date.getMonth(): fields of the local time
GetFullYear(date, zone) == YearFromDay(LocalTime(date, zone).day)
GetMonth(date, zone) == MonthFromDay(LocalTime(date, zone).day)

\* date.getUTCHours(): HourFromTime(t)
GetUTCHours(date) == date.ms \div msPerHour
\* date.getUTCMinutes(): MinFromTime(t)
GetUTCMinutes(date) == (date.ms \div msPerMinute) % 60
\* date.getMinutes(): MinFromTime(LocalTime(t))
GetMinutes(date, zone) == (LocalTime(date, zone).ms \div msPerMinute) % 60

\* new Date(year, month, date) for an integer year, month in 0..11 given as
\* the day count `monthStart` from January 1 to the month's first day in a
\* common year before March: a year of 0..99 means 1900 + year; the fields
\* are local time, and a date past the month's end runs into the next month
NewDate(year, monthStart, date, zone) ==
    LET yr == IF 0 <= year /\ year <= 99 THEN 1900 + year ELSE year
        day == DayFromYear(yr) + monthStart + date - 1
    IN UTC(Instant(day, 0), zone)

-----------------------------------------------------------------------------
(* isLeapYear (lines 56-59).                                               *)

\* line 57: new Date(date.getFullYear(), 1, 29); February starts on day 31
LeapYearProbe(date, zone) == NewDate(GetFullYear(date, zone), 31, 29, zone)

\* line 58: !(dateRes.getMonth() - 1)
isLeapYear(date, zone) == (GetMonth(LeapYearProbe(date, zone), zone) - 1) = 0

\* dates of the years -YearsBelowZero .. MaxYear: noon of January 1 and of
\* day 200, and midnight (UTC) of January 1
LeapYearArgs ==
    {<<Instant(DayFromYear(y) + d[1], d[2])>> :
        y \in (0 - YearsBelowZero)..MaxYear,
        d \in {<<0, 12 * msPerHour>>, <<200, 12 * msPerHour>>, <<0, 0>>}}

CallIsLeapYear ==
    /\ pc = "called"
    /\ call = "isLeapYear"
    /\ pc' = "returned"
    /\ locals' = [year |-> GetFullYear(args[1], tz),
                  dateRes |-> LeapYearProbe(args[1], tz)]
    /\ out' = isLeapYear(args[1], tz)
    /\ UNCHANGED <<tz, call, args>>

-----------------------------------------------------------------------------
(* angleBetweenClockHands (lines 114-121).  Every degree value of the      *)
(* function is a multiple of 0.5, so a degree value x is held as the       *)
(* integer 2x; the return value resRad * Math.PI is held as the fraction   *)
(* [num, den] of pi, num / den being resRad.                               *)

\* line 116 without the 12-hour normalisation
ClockHoursNotNormalised(hourDate) == MathAbs(hourDate)

\* line 116: hourDate > 12 ? Math.abs(hourDate - 12) : Math.abs(hourDate)
ClockHours(hourDate) ==
    IF hourDate > 12 THEN MathAbs(hourDate - 12) ELSE MathAbs(hourDate)

\* line 118, doubled: Math.abs(0.5 * (60 * hours - 11 * min))
RawAngle2(hours, min) == MathAbs(60 * hours - 11 * min)

\* line 119 without the fold to the shorter angle
KeepRawAngle2(result2) == result2

\* line 119, doubled: result > 180 ? Math.abs(360 - result) : result
ShorterAngle2(result2) ==
    IF result2 > 2 * 180 THEN MathAbs(2 * 360 - result2) ELSE result2

\* the minute line 117 reads: date.getMinutes(), the local minute
ClockMinute(date, zone) == GetMinutes(date, zone)

angleBetweenClockHands(date, zone) ==
    LET hourDate == GetUTCHours(date)
        hours == ClockHours(hourDate)
        min == ClockMinute(date, zone)
        result2 == RawAngle2(hours, min)
    IN [num |-> ShorterAngle2(result2), den |-> 2 * 180]

\* every hour and minute of 2016-03-05 (day 16865), at second 0 and 59
AngleArgs ==
    {<<Instant(16865, h * msPerHour + m * msPerMinute + s * msPerSecond)>> :
        h \in 0..23, m \in 0..59, s \in {0, 59}}

CallAngleBetweenClockHands ==
    /\ pc = "called"
    /\ call = "angleBetweenClockHands"
    /\ pc' = "returned"
    /\ locals' = [hourDate |-> GetUTCHours(args[1]),
                  hours |-> ClockHours(GetUTCHours(args[1])),
                  min |-> ClockMinute(args[1], tz),
                  result2 |-> RawAngle2(ClockHours(GetUTCHours(args[1])),
                                        ClockMinute(args[1], tz))]
    /\ out' = angleBetweenClockHands(args[1], tz)
    /\ UNCHANGED <<tz, call, args>>

-----------------------------------------------------------------------------
(* Date.parse, which both parsers return (lines 23 and 38).  ECMA-262      *)
(* ("Date.parse", "Date Time String Format") fixes its value on the ISO    *)
(* format YYYY-MM-DDTHH:mm:ss.sssZ and its shortened forms and on the      *)
(* format Date.prototype.toUTCString writes, "Tue, 26 Jan 2016 13:48:02    *)
(* GMT"; on any other string the value is the engine's choice.  DateParse  *)
(* is therefore the SET of values an engine may return.                    *)

\* The Number Date.parse returns: the time value t, NaN, or a time value an
\* engine's own heuristics build from a string outside the two formats.
TimeValue(t) == [kind |-> "time value", day |-> t.day, ms |-> t.ms]

NaN == [kind |-> "NaN", day |-> 0, ms |-> 0]

ImplementationValue == [kind |-> "time value of the engine's choice", day |-> 0, ms |-> 0]

CharClass(c) == IF c \in DigitSet THEN "d" ELSE c

\* the string with every digit replaced by "d"
Shape(s) == [i \in 1..Len(s) |-> CharClass(s[i])]

DigitValue(c) == CHOOSE v \in 0..9 : DigitChars[v + 1] = c

\* the number written by the n digits of s that start at position from
RECURSIVE NumberAt(_, _, _)
NumberAt(s, from, n) ==
    IF n = 0 THEN 0
    ELSE NumberAt(s, from, n - 1) * 10 + DigitValue(s[from + n - 1])

IsoDateShapes ==
    {<<"d", "d", "d", "d">>, <<"d", "d", "d", "d", "-", "d", "d">>, <<"d", "d", "d", "d", "-", "d", "d", "-", "d", "d">>}

IsoTimeShapes ==
    {<<>>, <<"T", "d", "d", ":", "d", "d">>, <<"T", "d", "d", ":", "d", "d", ":", "d", "d">>, <<"T", "d", "d", ":", "d", "d", ":", "d", "d", ".", "d", "d", "d">>}

IsoZoneShapes ==
    {<<>>, <<"Z">>, <<"+", "d", "d", ":", "d", "d">>, <<"-", "d", "d", ":", "d", "d">>}

\* the ways Shape(s) splits into a date, a time and a time zone part of the
\* Date Time String Format (at most one); an offset needs a time
IsoParts(s) ==
    {p \in IsoDateShapes \X IsoTimeShapes \X IsoZoneShapes :
        /\ p[1] \o p[2] \o p[3] = Shape(s)
        /\ p[2] = <<>> => p[3] = <<>>}

\* the day count from January 1 to the first day of month mo (1..12)
DaysBeforeMonth(y, mo) ==
    <<0, 31, 59, 90, 120, 151, 181, 212, 243, 273, 304, 334>>[mo]
        + (IF mo > 2 /\ DaysInYear(y) = 366 THEN 1 ELSE 0)

DaysInMonth(y, mo) ==
    IF mo = 12 THEN 31 ELSE DaysBeforeMonth(y, mo + 1) - DaysBeforeMonth(y, mo)

\* MakeDate(MakeDay(y, mo - 1, d), MakeTime(h, mi, sec, ms)) as UTC fields
MakeInstant(y, mo, d, h, mi, sec, ms) ==
    Instant(DayFromYear(y) + DaysBeforeMonth(y, mo) + d - 1,
            h * msPerHour + mi * msPerMinute + sec * msPerSecond + ms)

\* the written offset read without its sign
IsoOffsetSignIgnored(s, p, zone) ==
    LET z0 == Len(p[1]) + Len(p[2])
    IN IF p[3] = <<>> THEN (IF p[2] = <<>> THEN 0 ELSE zone)
       ELSE IF p[3] = <<"Z">> THEN 0
       ELSE NumberAt(s, z0 + 2, 2) * 60 + NumberAt(s, z0 + 5, 2)

\* the offset (minutes east of Greenwich) the fields are read under: the
\* written one; without one, UTC for a date alone and local time otherwise
IsoOffset(s, p, zone) ==
    LET z0 == Len(p[1]) + Len(p[2])
    IN IF p[3] = <<>> THEN (IF p[2] = <<>> THEN 0 ELSE zone)
       ELSE IF p[3] = <<"Z">> THEN 0
       ELSE (IF s[z0 + 1] = "-" THEN -1 ELSE 1)
                * (NumberAt(s, z0 + 2, 2) * 60 + NumberAt(s, z0 + 5, 2))

\* the values of a string of the Date Time String Format, split as p
IsoValues(s, p, zone) ==
    LET y == NumberAt(s, 1, 4)
        mo == IF Len(p[1]) >= 7 THEN NumberAt(s, 6, 2) ELSE 1
        d == IF Len(p[1]) = 10 THEN NumberAt(s, 9, 2) ELSE 1
        t0 == Len(p[1])
        h == IF p[2] # <<>> THEN NumberAt(s, t0 + 2, 2) ELSE 0
        mi == IF p[2] # <<>> THEN NumberAt(s, t0 + 5, 2) ELSE 0
        sec == IF Len(p[2]) >= 9 THEN NumberAt(s, t0 + 8, 2) ELSE 0
        ms == IF Len(p[2]) = 13 THEN NumberAt(s, t0 + 11, 3) ELSE 0
        z0 == t0 + Len(p[2])
        zoneOk == Len(p[3]) = 6 =>
                      NumberAt(s, z0 + 2, 2) <= 23 /\ NumberAt(s, z0 + 5, 2) <= 59
        legal == /\ 1 <= mo /\ mo <= 12
                 /\ 1 <= d /\ d <= 31
                 /\ h <= 24 /\ mi <= 59 /\ sec <= 59
                 /\ h = 24 => (mi = 0 /\ sec = 0 /\ ms = 0)
                 /\ zoneOk
        value == TimeValue(UTC(MakeInstant(y, mo, d, h, mi, sec, ms),
                                 IsoOffset(s, p, zone)))
    IN IF ~legal THEN {NaN}
       \* a day past the month's end (February 30): V8 lets MakeDay carry it
       \* into the next month, other engines return NaN
       ELSE IF d > DaysInMonth(y, mo) THEN {NaN, value}
       ELSE {value}

DayNames ==
    <<<<"S", "u", "n">>, <<"M", "o", "n">>, <<"T", "u", "e">>, <<"W", "e", "d">>,
      <<"T", "h", "u">>, <<"F", "r", "i">>, <<"S", "a", "t">>>>

MonthNames ==
    <<<<"J", "a", "n">>, <<"F", "e", "b">>, <<"M", "a", "r">>, <<"A", "p", "r">>,
      <<"M", "a", "y">>, <<"J", "u", "n">>, <<"J", "u", "l">>, <<"A", "u", "g">>,
      <<"S", "e", "p">>, <<"O", "c", "t">>, <<"N", "o", "v">>, <<"D", "e", "c">>>>

\* "Tue, 26 Jan 2016 13:48:02 GMT" with the names replaced by "aaa"
UtcStringShape ==
    <<"a", "a", "a", ",", " ", "d", "d", " ", "a", "a", "a", " ", "d", "d", "d", "d", " ", "d", "d", ":", "d", "d", ":", "d", "d", " ", "G", "M", "T">>

IsUtcStringFormat(s) ==
    /\ Len(s) = 29
    /\ \E i \in 1..7 : SubSeq(s, 1, 3) = DayNames[i]
    /\ \E i \in 1..12 : SubSeq(s, 9, 11) = MonthNames[i]
    /\ [i \in 1..29 |-> IF i \in {1, 2, 3, 9, 10, 11} THEN "a" ELSE CharClass(s[i])]
           = UtcStringShape

\* the values of a string of the toUTCString format; the day name is not
\* compared with the date
UtcStringValues(s) ==
    LET d == NumberAt(s, 6, 2)
        mo == CHOOSE i \in 1..12 : SubSeq(s, 9, 11) = MonthNames[i]
        y == NumberAt(s, 13, 4)
        h == NumberAt(s, 18, 2)
        mi == NumberAt(s, 21, 2)
        sec == NumberAt(s, 24, 2)
        legal == 1 <= d /\ d <= 31 /\ h <= 23 /\ mi <= 59 /\ sec <= 59
        value == TimeValue(MakeInstant(y, mo, d, h, mi, sec, 0))
    IN IF ~legal THEN {NaN}
       ELSE IF d > DaysInMonth(y, mo) THEN {NaN, value}
       ELSE {value}

\* a string of neither format: NaN, or for a string with a number in it a
\* time value of the engine's choosing (V8 skips unknown words before the
\* first number)
FallbackValues(s) ==
    IF \E i \in 1..Len(s) : s[i] \in DigitSet
    THEN {NaN, ImplementationValue}
    ELSE {NaN}

\* Date.parse(value) under the local offset zone
DateParse(value, zone) ==
    IF IsoParts(value) # {}
    THEN IsoValues(value, CHOOSE p \in IsoParts(value) : TRUE, zone)
    ELSE IF IsUtcStringFormat(value) THEN UtcStringValues(value)
    ELSE FallbackValues(value)

\* lines 22-24
parseDataFromRfc2822(value, zone) == DateParse(value, zone)

\* lines 37-39
parseDataFromIso8601(value, zone) == DateParse(value, zone)

-----------------------------------------------------------------------------
(* The strings the parsers are called with, written from calendar fields   *)
(* independently of DateParse.                                             *)

\* n in decimal, zero-padded to w characters
Pad(n, w) == [i \in 1..(w - Len(Digits(n))) |-> "0"] \o Digits(n)

CivilDaysInMonth(y, mo) ==
    IF mo = 2
    THEN (IF y % 4 = 0 /\ (y % 100 # 0 \/ y % 400 = 0) THEN 29 ELSE 28)
    ELSE IF mo \in {4, 6, 9, 11} THEN 30 ELSE 31

\* the day number of the civil date y-mo-d, counted in 400-year eras from
\* March 1 of year 0
DaysFromCivil(y, mo, d) ==
    LET yy == IF mo <= 2 THEN y - 1 ELSE y
        era == yy \div 400
        yoe == yy - era * 400
        doy == ((153 * (IF mo > 2 THEN mo - 3 ELSE mo + 9) + 2) \div 5) + d - 1
        doe == yoe * 365 + (yoe \div 4) - (yoe \div 100) + doy
    IN era * 146097 + doe - 719468

\* calendar fields <<y, mo, d>>, days past a month's end among them
FieldDates == {2000, 2015, 2016} \X {1, 2, 12} \X {1, 19, 26, 29, 30, 31}
FieldTimes == {<<8, 7, 37>>, <<13, 48, 2>>, <<16, 7, 37>>}
\* written zones <<text, offset in minutes, read as local time>>; the last
\* is no written zone
FieldZones ==
    {<<<<"Z">>, 0, FALSE>>, <<<<"+", "0", "0", ":", "0", "0">>, 0, FALSE>>,
     <<<<"+", "0", "5", ":", "3", "0">>, 330, FALSE>>,
     <<<<"-", "0", "5", ":", "0", "0">>, -300, FALSE>>, <<<<>>, 0, TRUE>>}

IsoDateText(f) == Pad(f[1], 4) \o <<"-">> \o Pad(f[2], 2) \o <<"-">> \o Pad(f[3], 2)

TimeText(t) == Pad(t[1], 2) \o <<":">> \o Pad(t[2], 2) \o <<":">> \o Pad(t[3], 2)

IsoText(f, t, z) == IsoDateText(f) \o <<"T">> \o TimeText(t) \o z[1]

\* 1970-01-01 (day 0) was a Thursday
UtcText(f, t) ==
    DayNames[((DaysFromCivil(f[1], f[2], f[3]) + 4) % 7) + 1] \o <<",", " ">>
        \o Pad(f[3], 2) \o <<" ">> \o MonthNames[f[2]] \o <<" ">> \o Pad(f[1], 4)
        \o <<" ">> \o TimeText(t) \o <<" ", "G", "M", "T">>

CivilInstant(f, t) ==
    Instant(DaysFromCivil(f[1], f[2], f[3]),
            t[1] * msPerHour + t[2] * msPerMinute + t[3] * msPerSecond)

ValidDates == {f \in FieldDates : f[3] <= CivilDaysInMonth(f[1], f[2])}

\* every well-formed string written, with the instant it denotes: utc is the
\* instant of its fields read as UTC, offset the zone they are written in,
\* local whether they are local time instead
WellFormedTable ==
    {[text |-> IsoText(f, t, z), utc |-> CivilInstant(f, t),
      offset |-> z[2], local |-> z[3]] :
        f \in ValidDates, t \in FieldTimes, z \in FieldZones}
    \cup {[text |-> UtcText(f, t), utc |-> CivilInstant(f, t),
            offset |-> 0, local |-> FALSE] :
        f \in ValidDates, t \in FieldTimes}
    \cup {[text |-> IsoDateText(f), utc |-> CivilInstant(f, <<0, 0, 0>>),
            offset |-> 0, local |-> FALSE] :
        f \in ValidDates}

\* strings of a date that does not exist (February 30, ...)
NoSuchDateTexts ==
    {IsoText(f, t, z) : f \in FieldDates \ ValidDates, t \in FieldTimes, z \in FieldZones}
    \cup {UtcText(f, t) : f \in FieldDates \ ValidDates, t \in FieldTimes}
    \cup {IsoDateText(f) : f \in FieldDates \ ValidDates}

ExampleRfc2822 ==
    <<"T", "u", "e", ",", " ", "2", "6", " ", "J", "a", "n", " ", "2", "0", "1", "6", " ", "1", "3", ":", "4", "8", ":", "0", "2", " ", "G", "M", "T">>

ExampleIsoZ ==
    <<"2", "0", "1", "6", "-", "0", "1", "-", "1", "9", "T", "0", "8", ":", "0", "7", ":", "3", "7", "Z">>

ExampleIsoOffset ==
    <<"2", "0", "1", "6", "-", "0", "1", "-", "1", "9", "T", "1", "6", ":", "0", "7", ":", "3", "7", "+", "0", "0", ":", "0", "0">>

ExampleIsoOffsetZ ==
    <<"2", "0", "1", "6", "-", "0", "1", "-", "1", "9", "T", "1", "6", ":", "0", "7", ":", "3", "7", "Z">>

ExampleTexts == {ExampleRfc2822, ExampleIsoZ, ExampleIsoOffset, ExampleIsoOffsetZ}

\* an example with one character replaced by "x"
GarbledTexts ==
    {[e EXCEPT ![i] = "x"] : e \in ExampleTexts, i \in 1..19}

PlainTexts ==
    {<<"n", "o", "t", " ", "a", " ", "d", "a", "t", "e">>,
     <<"n", "o", "t", " ", "a", " ", "d", "a", "t", "e", " ", "1">>,
     <<>>}

\* strings that are no well-formed date
MalformedTexts == NoSuchDateTexts \cup GarbledTexts \cup PlainTexts

\* the leading parts of the examples
TruncatedTexts == {SubSeq(e, 1, n) : e \in ExampleTexts, n \in 1..19}

ParseArgs ==
    {<<v>> : v \in {e.text : e \in WellFormedTable} \cup ExampleTexts
                     \cup MalformedTexts \cup TruncatedTexts}

CallParseDataFromRfc2822 ==
    /\ pc = "called"
    /\ call = "parseDataFromRfc2822"
    /\ pc' = "returned"
    /\ \E r \in parseDataFromRfc2822(args[1], tz) : out' = r
    /\ UNCHANGED <<tz, call, args, locals>>

CallParseDataFromIso8601 ==
    /\ pc = "called"
    /\ call = "parseDataFromIso8601"
    /\ pc' = "returned"
    /\ \E r \in parseDataFromIso8601(args[1], tz) : out' = r
    /\ UNCHANGED <<tz, call, args, locals>>

-----------------------------------------------------------------------------

\* the calls a run may make: the function and its arguments
Calls ==
    {<<"timeSpanToString", a>> : a \in TimeSpanArgs}
        \cup {<<"isLeapYear", a>> : a \in LeapYearArgs}
        \cup {<<"angleBetweenClockHands", a>> : a \in AngleArgs}
        \cup {<<"parseDataFromRfc2822", a>> : a \in ParseArgs}
        \cup {<<"parseDataFromIso8601", a>> : a \in ParseArgs}

Init ==
    /\ tz \in TimeZones
    /\ \E c \in Calls : call = c[1] /\ args = c[2]
    /\ pc = "called"
    /\ locals = <<>>
    /\ out = <<>>

Next ==
    \/ CallTimeSpanToString
    \/ CallIsLeapYear
    \/ CallAngleBetweenClockHands
    \/ CallParseDataFromRfc2822
    \/ CallParseDataFromIso8601

Spec == Init /\ [][Next]_vars

-----------------------------------------------------------------------------
(* Properties of timeSpanToString.                                         *)

Returned(f) == pc = "returned" /\ call = f

\* a string of the form HH:mm:ss.sss: 12 characters, digits but for ':' at
\* 3 and 6 and '.' at 9
IsTimeSpanFormat(s) ==
    /\ Len(s) = 12
    /\ s[3] = ":" /\ s[6] = ":" /\ s[9] = "."
    /\ \A i \in {1, 2, 4, 5, 7, 8, 10, 11, 12} : s[i] \in DigitSet

\* C1: for every pair of instants less than 100 hours apart, timeSpanToString
\* returns a string of exactly the form HH:mm:ss.sss (12 characters, each
\* two-digit field zero-padded), for every field value, 0 through 9 included.
C1_FixedWidthFormat ==
    (Returned("timeSpanToString") /\ locals.time < 100 * msPerHour)
        => IsTimeSpanFormat(out)

\* C3: timeSpanToString is symmetric: the string returned for (a, b) is the
\* string timeSpanToString computes for (b, a).
C3_Symmetric ==
    Returned("timeSpanToString") => out = timeSpanToString(args[2], args[1])

\* a call whose start date is later than its end date, 5 h 20 min 10.453 s apart
C3_Witness ==
    /\ Returned("timeSpanToString")
    /\ GetTimeDifference(args[1], args[2]) > 0
    /\ out = <<"0", "5", ":", "2", "0", ":", "1", "0", ".", "4", "5", "3">>
    /\ out = timeSpanToString(args[2], args[1])

\* C9: for every instant t, timeSpanToString(t, t) returns "00:00:00.000".
C9_ZeroSpan ==
    (Returned("timeSpanToString") /\ args[1] = args[2])
        => out = <<"0", "0", ":", "0", "0", ":", "0", "0", ".", "0", "0", "0">>

C9_Witness ==
    /\ Returned("timeSpanToString")
    /\ args[1] = args[2]
    /\ Len(out) = 12

\* C10: with D the absolute millisecond difference of the two instants, the
\* fields satisfy H = D div 3600000 (no cap), 0 <= M <= 59, 0 <= S <= 59,
\* 0 <= L <= 999 and H * 3600000 + M * 60000 + S * 1000 + L = D.
C10_FieldDecomposition ==
    Returned("timeSpanToString") =>
        LET D == MathAbs(GetTimeDifference(args[1], args[2]))
            H == locals.hourAbs
            M == locals.minAbs
            S == locals.secAbs
            L == locals.milSecAbs
        IN /\ D >= 0
           /\ H = D \div 3600000
           /\ 0 <= M /\ M <= 59
           /\ 0 <= S /\ S <= 59
           /\ 0 <= L /\ L <= 999
           /\ H * 3600000 + M * 60000 + S * 1000 + L = D

\* a span of 100 hours or more whose four fields are all non-zero
C10_Witness ==
    /\ Returned("timeSpanToString")
    /\ locals.hourAbs >= 100
    /\ locals.minAbs = 59 /\ locals.secAbs = 59 /\ locals.milSecAbs = 999

-----------------------------------------------------------------------------
(* Properties of isLeapYear.                                               *)

GregorianLeap(Y) == Y % 4 = 0 /\ (Y % 100 # 0 \/ Y % 400 = 0)

\* C2: for every year Y, years 0 through 99 and century years included,
\* isLeapYear of a date whose year is Y is true exactly when Y % 4 = 0 and
\* (Y % 100 # 0 or Y % 400 = 0).
C2_LeapYearRule ==
    Returned("isLeapYear") => (out <=> GregorianLeap(locals.year))

-----------------------------------------------------------------------------
(* Properties of angleBetweenClockHands.                                   *)

\* C4: the result is in [0, pi]: the fraction of pi returned is in [0, 1],
\* that is the angle in degrees before the conversion is in [0, 180].
C4_AngleRange ==
    Returned("angleBetweenClockHands") =>
        /\ 0 <= out.num
        /\ out.num <= out.den
        /\ out.den = 2 * 180

\* hour 12, where no 12 is subtracted and the raw angle exceeds 180 degrees
C4_Witness ==
    /\ Returned("angleBetweenClockHands")
    /\ locals.hourDate = 12
    /\ locals.result2 > 2 * 180

\* twice the smaller angle, in degrees, between the hands of a clock showing
\* h:m, with d = |(30 * (h mod 12) + m / 2) - 6 * m|
TrueAngle2(h, m) ==
    LET d2 == MathAbs((60 * (h % 12) + m) - 12 * m)
    IN IF d2 <= 720 - d2 THEN d2 ELSE 720 - d2

\* C5: for the hour h and minute m the function reads, the result in degrees
\* is min(d, 360 - d) with d = |(30 * (h mod 12) + m / 2) - 6 * m|; 0:00
\* gives 0, 3:00 gives 90, 18:00 gives 180, 21:00 gives 90, and hour 12 gives
\* what hour 0 gives at the same minute.
C5_TrueAngle ==
    Returned("angleBetweenClockHands") =>
        LET h == locals.hourDate
            m == locals.min
        IN /\ out.den = 360
           /\ out.num = TrueAngle2(h, m)
           /\ (h = 0 /\ m = 0) => out.num = 0
           /\ (h = 3 /\ m = 0) => out.num = 2 * 90
           /\ (h = 18 /\ m = 0) => out.num = 2 * 180
           /\ (h = 21 /\ m = 0) => out.num = 2 * 90
           /\ h = 12 => out.num = ShorterAngle2(RawAngle2(ClockHours(0), m))

\* 21:00 read (normalised to 9), a quarter turn
C5_Witness ==
    /\ Returned("angleBetweenClockHands")
    /\ locals.hourDate = 21 /\ locals.min = 0
    /\ out.num = 180

\* C6: the result is the angle for the Greenwich time: it is determined by
\* the instant's UTC hour and UTC minute alone, so the same instant under any
\* other local time zone offset gives the same angle.
C6_GreenwichTimeOnly ==
    Returned("angleBetweenClockHands") =>
        /\ out.num = ShorterAngle2(RawAngle2(ClockHours(GetUTCHours(args[1])),
                                             GetUTCMinutes(args[1])))
        /\ out = angleBetweenClockHands(args[1], 0)

-----------------------------------------------------------------------------
(* Properties of the parsers.                                              *)

ParserReturned == Returned("parseDataFromRfc2822") \/ Returned("parseDataFromIso8601")

\* C7: for every string that is no well-formed date, both parsers return the
\* invalid-date value (NaN) as a value, and parsing the string again gives
\* the same invalid result.
C7_MalformedGivesNaN ==
    (ParserReturned /\ args[1] \in MalformedTexts) => out = NaN

=============================================================================
